---- MODULE Spec2Model ----
(***************************************************************************)
(* A model of the editing session of src/editor.py: the main loop of       *)
(* editor(), one action per key handler, the per-frame drawing step, and   *)
(* the file the session saves to.                                          *)
(*                                                                         *)
(* A line is a sequence of one-character strings; the buffer `lines` is a  *)
(* sequence of lines.  Python's 0-based indices are kept: lines[cursor_y]  *)
(* of the source is lines[cursor_y + 1] here.                              *)
(***************************************************************************)
EXTENDS Integers, Sequences, FiniteSets, TLC

\* ------------------------------------------------------------------ bounds
\* A session reads at most MaxKeys keys at the top of its loop.
MaxKeys == 4
\* The terminal: stdscr.getmaxyx() answers (TermHeight, TermWidth).
TermHeight == 21
TermWidth == 8
\* A file opened for viewing holds at most MaxText characters.
MaxText == 5

\* ------------------------------------------------------- program constants
LINE_NUMBER_WIDTH == 5
MenuLen == 100
UndoLimit == 100

NL == "\n"
tab_spaces == <<" ", " ", " ", " ">>

\* The printable keys typed (32 <= key <= 126), the search and replace terms
\* and the mouse columns the model draws its inputs from.
PrintableKeys == {"a"}
SearchTerms == {<<"a">>, <<"a", "b">>, <<" ", " ">>}
ReplaceTerms == {<<>>, <<"b">>}
FileName == "f"

Min(a, b) == IF a < b THEN a ELSE b
Max(a, b) == IF a > b THEN a ELSE b

\* ---------------------------------------------------- Python's str and list
\* s[i:j] for 0 <= i, 0 <= j: indices past the end are clamped.
Slice(s, i, j) ==
    LET a == Min(i, Len(s))
        b == Min(j, Len(s))
    IN  IF a >= b THEN <<>> ELSE SubSeq(s, a + 1, b)

\* s[i:]
SliceFrom(s, i) == Slice(s, i, Len(s))

\* s[:j]
SliceTo(s, j) == Slice(s, 0, j)

\* l.insert(i, x) for i >= 0: an index past the end appends.
ListInsert(l, i, x) ==
    LET k == Min(i, Len(l))
    IN  SubSeq(l, 1, k) \o <<x>> \o SubSeq(l, k + 1, Len(l))

\* l.pop(i) for 0 <= i < len(l): the list that is left.
ListPop(l, i) == SubSeq(l, 1, i) \o SubSeq(l, i + 2, Len(l))

\* f in s
Contains(s, f) ==
    \E i \in 0..(Len(s) - Len(f)) : SubSeq(s, i + 1, i + Len(f)) = f

\* s.find(f), for f in s
StrFind(s, f) ==
    CHOOSE i \in 0..(Len(s) - Len(f)) :
        /\ SubSeq(s, i + 1, i + Len(f)) = f
        /\ \A j \in 0..(i - 1) : SubSeq(s, j + 1, j + Len(f)) # f

\* s.replace(f, r, 1): only the first occurrence.
StrReplace_First(s, f, r) ==
    IF \E i \in 0..(Len(s) - Len(f)) : SubSeq(s, i + 1, i + Len(f)) = f
    THEN LET i == CHOOSE i \in 0..(Len(s) - Len(f)) :
                    /\ SubSeq(s, i + 1, i + Len(f)) = f
                    /\ \A j \in 0..(i - 1) : SubSeq(s, j + 1, j + Len(f)) # f
         IN  SubSeq(s, 1, i) \o r \o SubSeq(s, i + Len(f) + 1, Len(s))
    ELSE s

\* s.replace(f, r) for a non-empty f: left to right, non-overlapping.
RECURSIVE StrReplace(_, _, _)
StrReplace(s, f, r) ==
    IF Len(s) < Len(f) THEN s
    ELSE IF SubSeq(s, 1, Len(f)) = f
         THEN r \o StrReplace(SubSeq(s, Len(f) + 1, Len(s)), f, r)
         ELSE <<s[1]>> \o StrReplace(Tail(s), f, r)

\* '\n'.join(ls)
RECURSIVE Join(_)
Join(ls) ==
    IF Len(ls) = 0 THEN <<>>
    ELSE IF Len(ls) = 1 THEN ls[1]
    ELSE ls[1] \o <<NL>> \o Join(Tail(ls))

\* text.splitlines(), for a text whose only line boundary is '\n': a final
\* newline ends the last line and opens no new one.
RECURSIVE SplitFrom(_, _)
SplitFrom(text, cur) ==
    IF Len(text) = 0 THEN (IF Len(cur) = 0 THEN <<>> ELSE <<cur>>)
    ELSE IF text[1] = NL THEN <<cur>> \o SplitFrom(Tail(text), <<>>)
    ELSE SplitFrom(Tail(text), Append(cur, text[1]))

SplitLines(text) == SplitFrom(text, <<>>)

\* --------------------------------------------------------------- wrapping
RECURSIVE Chunks(_, _)
Chunks(line, width) ==
    IF Len(line) = 0 THEN <<>>
    ELSE <<SliceTo(line, width)>> \o Chunks(SliceFrom(line, width), width)

\* word_wrap() without its "else [line]": the chunks only.
word_wrap_ChunksOnly(line, width) == Chunks(line, width)

word_wrap(line, width) ==
    IF Len(line) > width THEN Chunks(line, width) ELSE <<line>>

\* wrapped_lines: the pairs (original_idx, wline), original_idx 0-based.
RECURSIVE WrapFrom(_, _, _)
WrapFrom(ls, idx, width) ==
    IF idx >= Len(ls) THEN <<>>
    ELSE LET wrapped == word_wrap(ls[idx + 1], width)
         IN  [k \in 1..Len(wrapped) |-> <<idx, wrapped[k]>>]
             \o WrapFrom(ls, idx + 1, width)

wrapped_lines(ls, width) == WrapFrom(ls, 0, width)

\* The scan for the cursor's display segment: <<visible_line_idx, cursor_x>>
\* as the loop leaves them.  cursor_x is the loop's own running variable.
RECURSIVE CursorScan(_, _, _, _)
CursorScan(wl, i, cy, cx) ==
    IF i >= Len(wl) THEN <<0, cx>>
    ELSE IF wl[i + 1][1] = cy
         THEN IF cx <= Len(wl[i + 1][2])
              THEN <<i, cx>>
              ELSE CursorScan(wl, i + 1, cy, cx - Len(wl[i + 1][2]))
         ELSE CursorScan(wl, i + 1, cy, cx)

\* menu_height: the number of chunks of width - 1 characters of the menu.
menu_height == (MenuLen + (TermWidth - 1) - 1) \div (TermWidth - 1)
text_height == TermHeight - 4 - menu_height
text_width == TermWidth - LINE_NUMBER_WIDTH

\* ------------------------------------------------------------------ state
VARIABLES
    lines,            \* the buffer
    cursor_y,
    cursor_x,
    screen_y_offset,
    status_msg,
    modified,
    clipboard_line,
    undo_stack,
    redo_stack,
    filename,         \* "" when the session has no file name
    disk_file,        \* <<>>: no file at filename; <<text>>: its content
    disk_backup,      \* the same for filename + "~"
    pc,               \* "draw", "key", "confirm", "exited" or "crashed"
    nkeys,            \* the keys read so far at the top of the loop
    prev,             \* history: the last command, when it was a Cut or an
                      \* Undo that took effect, with the buffer and row before
    trail             \* history: the buffers before the edits not yet undone

vars == <<lines, cursor_y, cursor_x, screen_y_offset, status_msg, modified,
          clipboard_line, undo_stack, redo_stack, filename, disk_file,
          disk_backup, pc, nkeys, prev, trail>>

bufv == <<lines, undo_stack, redo_stack, trail>>
curv == <<cursor_y, cursor_x>>
diskv == <<filename, disk_file, disk_backup>>

NoPrev == [cmd |-> "none", lines |-> <<>>, row |-> 0]

\* The files that may exist when the session is started with a file name.
InitFiles == {<<"a", "b", NL, "a", NL>>}

\* editor(), lines 112-136: the state when the main loop is entered.
InitNoName ==
    /\ filename = ""
    /\ disk_file = <<>>
    /\ lines = <<<<>>>>
    /\ status_msg = <<"Welcome">>

InitNewFile ==
    /\ filename = FileName
    /\ disk_file = <<>>
    /\ lines = <<<<>>>>
    /\ status_msg = <<"New file">>

InitLoaded ==
    /\ filename = FileName
    /\ \E text \in InitFiles :
          /\ disk_file = <<text>>
          /\ lines = (IF SplitLines(text) = <<>> THEN <<<<>>>> ELSE SplitLines(text))
    /\ status_msg = <<"Welcome">>

Init ==
    /\ \/ InitNoName
       \/ InitNewFile
       \/ InitLoaded
    /\ disk_backup = <<>>
    /\ cursor_y = 0
    /\ cursor_x = 0
    /\ screen_y_offset = 0
    /\ modified = FALSE
    /\ clipboard_line = <<>>
    /\ undo_stack = <<>>
    /\ redo_stack = <<>>
    /\ pc = "draw"
    /\ nkeys = 0
    /\ prev = NoPrev
    /\ trail = <<>>

\* The texts of up to MaxText characters a file opened for viewing may hold.
WrapTexts == UNION {[1..n -> {"a", "b", NL}] : n \in 0..MaxText}

\* editor(), lines 112-136, for a file of WrapTexts.
InitView ==
    /\ filename = FileName
    /\ \E text \in WrapTexts :
          /\ disk_file = <<text>>
          /\ lines = (IF SplitLines(text) = <<>> THEN <<<<>>>> ELSE SplitLines(text))
    /\ status_msg = <<"Welcome">>
    /\ disk_backup = <<>>
    /\ cursor_y = 0
    /\ cursor_x = 0
    /\ screen_y_offset = 0
    /\ modified = FALSE
    /\ clipboard_line = <<>>
    /\ undo_stack = <<>>
    /\ redo_stack = <<>>
    /\ pc = "draw"
    /\ nkeys = 0
    /\ prev = NoPrev
    /\ trail = <<>>

\* The top of the main loop after "a" and Backspace were typed in turn,
\* UndoLimit keys in all, into the unnamed new buffer (lines 348-352 and
\* 232-243): every key pushed the buffer it found, so undo_stack is full and
\* the next save_undo() drops its oldest entry.  nkeys counts from here.
InitLongHistory ==
    /\ InitNoName
    /\ disk_backup = <<>>
    /\ cursor_y = 0
    /\ cursor_x = 0
    /\ screen_y_offset = 0
    /\ modified = TRUE
    /\ clipboard_line = <<>>
    /\ undo_stack = [i \in 1..UndoLimit |->
                        IF i % 2 = 1 THEN <<<<>>>> ELSE << <<"a">> >>]
    /\ redo_stack = <<>>
    /\ pc = "draw"
    /\ nkeys = 0
    /\ prev = NoPrev
    /\ trail = undo_stack

\* ------------------------------------------------------------- the frame
\* Lines 139-200: the viewport follows cursor_y, and the scan that places
\* the terminal cursor runs with cursor_x as its variable.
Draw ==
    /\ pc = "draw"
    /\ screen_y_offset' =
          IF cursor_y < screen_y_offset THEN cursor_y
          ELSE IF cursor_y >= screen_y_offset + text_height
               THEN cursor_y - text_height + 1
               ELSE screen_y_offset
    /\ cursor_x' = CursorScan(wrapped_lines(lines, text_width), 0, cursor_y, cursor_x)[2]
    /\ pc' = "key"
    /\ UNCHANGED <<bufv, diskv, cursor_y, status_msg, modified, clipboard_line,
                   nkeys, prev>>

\* key = stdscr.getch(), line 202: the handler of the key read starts, and
\* the history keeps p.
Getch(p) ==
    /\ pc = "key"
    /\ nkeys < MaxKeys
    /\ nkeys' = nkeys + 1
    /\ prev' = p

\* lines[y] exists.
HasRow(ls, y) == y >= 0 /\ y < Len(ls)

\* Where a handler ends: back at the top of the loop, or with the IndexError
\* that nothing in editor() catches.
After(ok) == IF ok THEN "draw" ELSE "crashed"

\* ------------------------------------------------------------ the history
\* save_undo() dropping, past UndoLimit entries, the newest one.
PushUndo_DropNewest(stack, buf) ==
    LET s == Append(stack, buf)
    IN  IF Len(s) > UndoLimit THEN SubSeq(s, 1, UndoLimit) ELSE s

\* save_undo() without its redo_stack.clear().
ClearRedo_Keep(stack) == stack

\* save_undo() without the check of lines 124-125.
PushUndo_NoLimit(stack, buf) == Append(stack, buf)

\* save_undo(), lines 123-125: the snapshot is pushed and, past UndoLimit
\* entries, the oldest one is dropped.
PushUndo(stack, buf) ==
    LET s == Append(stack, buf)
    IN  IF Len(s) > UndoLimit THEN Tail(s) ELSE s

\* save_undo(), line 126.
ClearRedo(stack) == <<>>

save_undo ==
    /\ undo_stack' = PushUndo(undo_stack, lines)
    /\ redo_stack' = ClearRedo(redo_stack)
    /\ trail' = (LET t == Append(trail, lines)
                 IN  IF Len(t) > UndoLimit THEN Tail(t) ELSE t)

SetLine(ls, y, v) == [ls EXCEPT ![y + 1] = v]

\* ------------------------------------------------------------ the pointer
MouseCols == {5, 7, 12}

\* Lines 204-212.  An exception inside is swallowed by the bare except, after
\* cursor_y was already assigned.
MouseAt(my, mx) ==
    /\ Getch(NoPrev)
    /\ IF 1 <= my /\ my < text_height + 1
       THEN LET y == Max(0, Min(screen_y_offset + (my - 1), Len(lines) - 1))
            IN  /\ cursor_y' = y
                /\ cursor_x' = IF HasRow(lines, y)
                               THEN Max(0, Min(mx - LINE_NUMBER_WIDTH, Len(lines[y + 1])))
                               ELSE cursor_x
       ELSE UNCHANGED curv
    /\ pc' = "draw"
    /\ UNCHANGED <<bufv, diskv, screen_y_offset, status_msg, modified, clipboard_line>>

KeyMouse == \E my \in 0..(text_height + 1), mx \in MouseCols : MouseAt(my, mx)

\* ---------------------------------------------------------------- moves
\* Lines 214-216.
KeyUp ==
    /\ Getch(NoPrev)
    /\ LET y == Max(0, cursor_y - 1)
       IN  /\ cursor_y' = y
           /\ cursor_x' = IF HasRow(lines, y) THEN Min(cursor_x, Len(lines[y + 1])) ELSE cursor_x
           /\ pc' = After(HasRow(lines, y))
    /\ UNCHANGED <<bufv, diskv, screen_y_offset, status_msg, modified, clipboard_line>>

\* Lines 217-219.  On an empty buffer cursor_y becomes -1 and lines[-1] raises.
KeyDown ==
    /\ Getch(NoPrev)
    /\ LET y == Min(Len(lines) - 1, cursor_y + 1)
       IN  /\ cursor_y' = y
           /\ cursor_x' = IF HasRow(lines, y) THEN Min(cursor_x, Len(lines[y + 1])) ELSE cursor_x
           /\ pc' = After(HasRow(lines, y))
    /\ UNCHANGED <<bufv, diskv, screen_y_offset, status_msg, modified, clipboard_line>>

\* Lines 220-225.
KeyLeft ==
    /\ Getch(NoPrev)
    /\ IF cursor_x > 0
       THEN /\ cursor_x' = cursor_x - 1
            /\ cursor_y' = cursor_y
            /\ pc' = "draw"
       ELSE IF cursor_y > 0
            THEN /\ cursor_y' = cursor_y - 1
                 /\ cursor_x' = IF HasRow(lines, cursor_y - 1)
                                THEN Len(lines[cursor_y])
                                ELSE cursor_x
                 /\ pc' = After(HasRow(lines, cursor_y - 1))
            ELSE /\ UNCHANGED curv
                 /\ pc' = "draw"
    /\ UNCHANGED <<bufv, diskv, screen_y_offset, status_msg, modified, clipboard_line>>

\* Lines 226-231.
KeyRight ==
    /\ Getch(NoPrev)
    /\ IF ~HasRow(lines, cursor_y)
       THEN /\ UNCHANGED curv
            /\ pc' = "crashed"
       ELSE /\ pc' = "draw"
            /\ IF cursor_x < Len(lines[cursor_y + 1])
               THEN /\ cursor_x' = cursor_x + 1
                    /\ cursor_y' = cursor_y
               ELSE IF cursor_y < Len(lines) - 1
                    THEN /\ cursor_y' = cursor_y + 1
                         /\ cursor_x' = 0
                    ELSE UNCHANGED curv
    /\ UNCHANGED <<bufv, diskv, screen_y_offset, status_msg, modified, clipboard_line>>

\* ---------------------------------------------------------------- edits
\* Lines 232-243.
KeyBackspace ==
    /\ Getch(NoPrev)
    /\ save_undo
    /\ modified' = TRUE
    /\ IF cursor_x > 0
       THEN IF HasRow(lines, cursor_y)
            THEN LET l == lines[cursor_y + 1]
                 IN  /\ lines' = SetLine(lines, cursor_y,
                                         SliceTo(l, cursor_x - 1) \o SliceFrom(l, cursor_x))
                     /\ cursor_x' = cursor_x - 1
                     /\ cursor_y' = cursor_y
                     /\ pc' = "draw"
            ELSE /\ UNCHANGED <<lines, curv>>
                 /\ pc' = "crashed"
       ELSE IF cursor_y > 0
            THEN IF HasRow(lines, cursor_y - 1) /\ HasRow(lines, cursor_y)
                 THEN LET prev_len == Len(lines[cursor_y])
                          joined == lines[cursor_y] \o lines[cursor_y + 1]
                      IN  /\ lines' = ListPop(SetLine(lines, cursor_y - 1, joined), cursor_y)
                          /\ cursor_y' = cursor_y - 1
                          /\ cursor_x' = prev_len
                          /\ pc' = "draw"
                 ELSE /\ UNCHANGED <<lines, curv>>
                      /\ pc' = "crashed"
            ELSE /\ UNCHANGED <<lines, curv>>
                 /\ pc' = "draw"
    /\ UNCHANGED <<diskv, screen_y_offset, status_msg, clipboard_line>>

\* Lines 244-251.
KeyEnter ==
    /\ Getch(NoPrev)
    /\ save_undo
    /\ modified' = TRUE
    /\ IF HasRow(lines, cursor_y)
       THEN LET l == lines[cursor_y + 1]
                new_line == SliceFrom(l, cursor_x)
            IN  /\ lines' = ListInsert(SetLine(lines, cursor_y, SliceTo(l, cursor_x)),
                                       cursor_y + 1, new_line)
                /\ cursor_y' = cursor_y + 1
                /\ cursor_x' = 0
                /\ pc' = "draw"
       ELSE /\ UNCHANGED <<lines, curv>>
            /\ pc' = "crashed"
    /\ UNCHANGED <<diskv, screen_y_offset, status_msg, clipboard_line>>

\* lines[cursor_y][:cursor_x] + text + lines[cursor_y][cursor_x:], the cursor
\* moved past the text: lines 256-257 and 351-352.
InsertText(text) ==
    /\ Getch(NoPrev)
    /\ save_undo
    /\ modified' = TRUE
    /\ IF HasRow(lines, cursor_y)
       THEN LET l == lines[cursor_y + 1]
            IN  /\ lines' = SetLine(lines, cursor_y,
                                    SliceTo(l, cursor_x) \o text \o SliceFrom(l, cursor_x))
                /\ cursor_x' = cursor_x + Len(text)
                /\ cursor_y' = cursor_y
                /\ pc' = "draw"
       ELSE /\ UNCHANGED <<lines, curv>>
            /\ pc' = "crashed"
    /\ UNCHANGED <<diskv, screen_y_offset, status_msg, clipboard_line>>

\* Lines 252-257.
KeyTab == InsertText(tab_spaces)

\* Lines 348-352.
KeyPrintable == \E c \in PrintableKeys : InsertText(<<c>>)

\* ------------------------------------------------------------------ exit
\* Lines 258-269: with unsaved changes the handler itself reads one more key.
KeyExit ==
    /\ Getch(NoPrev)
    /\ IF modified
       THEN /\ status_msg' = <<"Unsaved changes">>
            /\ pc' = "confirm"
       ELSE /\ status_msg' = status_msg
            /\ pc' = "exited"
    /\ UNCHANGED <<bufv, curv, diskv, screen_y_offset, modified, clipboard_line>>

\* Lines 265-267: confirm_exit == 24.
ConfirmExit ==
    /\ pc = "confirm"
    /\ pc' = "exited"
    /\ UNCHANGED <<bufv, curv, diskv, screen_y_offset, status_msg, modified,
                   clipboard_line, nkeys, prev>>

\* Lines 265-266: any other key is dropped and the loop goes on.
ConfirmOther ==
    /\ pc = "confirm"
    /\ pc' = "draw"
    /\ UNCHANGED <<bufv, curv, diskv, screen_y_offset, status_msg, modified,
                   clipboard_line, nkeys, prev>>

\* ------------------------------------------------------------------ save
\* A save that keeps a backup that is already there.
RenameToBackup_KeepOld(file, backup) == IF backup # <<>> THEN backup ELSE file

\* A save that clears the flag before it knows the write went through.
ModifiedAfterSave_Cleared(io, m) == FALSE

\* Lines 276-278: an existing file becomes the backup, replacing any.
RenameToBackup(file, backup) == IF file # <<>> THEN file ELSE backup

\* Lines 279-280: the file holds the lines joined by newlines.
WriteOut(ls) == <<Join(ls)>>

\* What the operating system may answer to the save: success, or an OSError
\* from os.rename, from open or from write.
SaveOutcomes == {"ok", "rename fails", "open fails", "write fails"}

\* Lines 283-285: modified = False is reached only when nothing was raised.
ModifiedAfterSave(io, m) == IF io = "ok" THEN FALSE ELSE m

\* Lines 282 and 285.
StatusAfterSave(io) == IF io = "ok" THEN <<"Wrote">> ELSE <<"Error saving">>

\* Lines 270-287.  A failed open leaves no file at the path, a failed write
\* an empty one.
KeySave ==
    /\ Getch(NoPrev)
    /\ \E answer \in {"", FileName}, io \in SaveOutcomes :
          /\ filename' = IF filename = "" THEN answer ELSE filename
          /\ IF filename' = ""
             THEN /\ status_msg' = <<"Save cancelled">>
                  /\ UNCHANGED <<disk_file, disk_backup, modified>>
             ELSE /\ io = "rename fails" => disk_file # <<>>
                  /\ disk_backup' = IF io = "rename fails"
                                    THEN disk_backup
                                    ELSE RenameToBackup(disk_file, disk_backup)
                  /\ disk_file' = CASE io = "rename fails" -> disk_file
                                    [] io = "open fails" -> <<>>
                                    [] io = "write fails" -> << <<>> >>
                                    [] io = "ok" -> WriteOut(lines)
                  /\ status_msg' = StatusAfterSave(io)
                  /\ modified' = ModifiedAfterSave(io, modified)
    /\ pc' = "draw"
    /\ UNCHANGED <<bufv, curv, screen_y_offset, clipboard_line>>

\* Lines 288-289.
KeyHelp ==
    /\ Getch(NoPrev)
    /\ status_msg' = <<"Help">>
    /\ pc' = "draw"
    /\ UNCHANGED <<bufv, curv, diskv, screen_y_offset, modified, clipboard_line>>

\* A key no branch of the chain handles.
KeyOther ==
    /\ Getch(NoPrev)
    /\ pc' = "draw"
    /\ UNCHANGED <<bufv, curv, diskv, screen_y_offset, status_msg, modified,
                   clipboard_line>>

\* ---------------------------------------------------------------- search
\* The scan started at row 0 instead of cursor_y.
FoundRows_FromTop(term) ==
    {idx \in 0..(Len(lines) - 1) : Contains(lines[idx + 1], term)}

\* The rows range(cursor_y, len(lines)) whose line contains the term.
FoundRows(term) ==
    {idx \in 0..(Len(lines) - 1) : idx >= cursor_y /\ Contains(lines[idx + 1], term)}

\* Lines 290-301.
FindWith(search_term) ==
    /\ Getch(NoPrev)
    /\ IF FoundRows(search_term) # {}
       THEN LET idx == CHOOSE r \in FoundRows(search_term) :
                           \A q \in FoundRows(search_term) : r <= q
            IN  /\ cursor_y' = idx
                /\ cursor_x' = StrFind(lines[idx + 1], search_term)
                /\ status_msg' = <<"Found">>
       ELSE /\ UNCHANGED curv
            /\ status_msg' = <<"not found">>
    /\ pc' = "draw"
    /\ UNCHANGED <<bufv, diskv, screen_y_offset, modified, clipboard_line>>

KeyFind == \E search_term \in SearchTerms : FindWith(search_term)

\* Lines 307-310: the buffer after the loop.
ReplacedLines(ls, search_term, replace_term) ==
    [i \in 1..Len(ls) |->
        IF Contains(ls[i], search_term)
        THEN StrReplace(ls[i], search_term, replace_term)
        ELSE ls[i]]

\* Lines 302-312.
ReplaceWith(search_term, replace_term) ==
    /\ Getch(NoPrev)
    /\ save_undo
    /\ LET new == ReplacedLines(lines, search_term, replace_term)
           count == Cardinality({i \in 1..Len(lines) : Contains(lines[i], search_term)})
       IN  /\ lines' = new
           /\ status_msg' = <<"Replaced", count>>
    /\ modified' = TRUE
    /\ pc' = "draw"
    /\ UNCHANGED <<curv, diskv, screen_y_offset, clipboard_line>>

KeyReplace ==
    \E search_term \in SearchTerms, replace_term \in ReplaceTerms :
        ReplaceWith(search_term, replace_term)

\* What the user may answer to "Goto Line: ": <<FALSE, 0>> for a text int()
\* refuses, <<TRUE, n>> for the number n.
GotoAnswers == {<<FALSE, 0>>} \cup {<<TRUE, n>> : n \in 0..3}

\* GotoLine taking the number typed for the 0-based row.
GotoWith_NoOffset(answer) ==
    /\ Getch(NoPrev)
    /\ IF ~answer[1]
       THEN /\ status_msg' = <<"Invalid input">>
            /\ UNCHANGED curv
       ELSE LET goto_line == answer[2]
            IN  IF 0 <= goto_line /\ goto_line < Len(lines)
                THEN /\ cursor_y' = goto_line
                     /\ cursor_x' = Min(cursor_x, Len(lines[goto_line + 1]))
                     /\ status_msg' = <<"Jumped">>
                ELSE /\ status_msg' = <<"Invalid line number">>
                     /\ UNCHANGED curv
    /\ pc' = "draw"
    /\ UNCHANGED <<bufv, diskv, screen_y_offset, modified, clipboard_line>>

\* Lines 313-323.
GotoWith(answer) ==
    /\ Getch(NoPrev)
    /\ IF ~answer[1]
       THEN /\ status_msg' = <<"Invalid input">>
            /\ UNCHANGED curv
       ELSE LET goto_line == answer[2] - 1
            IN  IF 0 <= goto_line /\ goto_line < Len(lines)
                THEN /\ cursor_y' = goto_line
                     /\ cursor_x' = Min(cursor_x, Len(lines[goto_line + 1]))
                     /\ status_msg' = <<"Jumped">>
                ELSE /\ status_msg' = <<"Invalid line number">>
                     /\ UNCHANGED curv
    /\ pc' = "draw"
    /\ UNCHANGED <<bufv, diskv, screen_y_offset, modified, clipboard_line>>

KeyGoto == \E answer \in GotoAnswers : GotoWith(answer)

\* ----------------------------------------------------------- cut and paste
\* Cut leaving the cursor on the last line whatever row was cut.
RowAfterCut_Last(y, n) == Max(0, n - 1)

\* Lines 328-329: the row the cursor is left on when n lines remain.
RowAfterCut(y, n) == IF y >= n THEN Max(0, n - 1) ELSE y

\* Lines 324-332.
KeyCut ==
    /\ Getch(IF HasRow(lines, cursor_y)
             THEN [cmd |-> "cut", lines |-> lines, row |-> cursor_y]
             ELSE NoPrev)
    /\ save_undo
    /\ IF HasRow(lines, cursor_y)
       THEN /\ clipboard_line' = lines[cursor_y + 1]
            /\ lines' = ListPop(lines, cursor_y)
            /\ cursor_y' = RowAfterCut(cursor_y, Len(lines'))
            /\ cursor_x' = 0
            /\ modified' = TRUE
            /\ status_msg' = <<"Line cut">>
            /\ pc' = "draw"
       ELSE /\ UNCHANGED <<lines, curv, clipboard_line, modified, status_msg>>
            /\ pc' = "crashed"
    /\ UNCHANGED <<diskv, screen_y_offset>>

\* Paste emptying the clipboard it pasted from.
KeyPaste_ClearsSlot ==
    /\ Getch(NoPrev)
    /\ save_undo
    /\ lines' = ListInsert(lines, cursor_y, clipboard_line)
    /\ clipboard_line' = <<>>
    /\ modified' = TRUE
    /\ status_msg' = <<"Line pasted">>
    /\ pc' = "draw"
    /\ UNCHANGED <<curv, diskv, screen_y_offset>>

\* Lines 333-337.
KeyPaste ==
    /\ Getch(NoPrev)
    /\ save_undo
    /\ lines' = ListInsert(lines, cursor_y, clipboard_line)
    /\ modified' = TRUE
    /\ status_msg' = <<"Line pasted">>
    /\ pc' = "draw"
    /\ UNCHANGED <<curv, diskv, screen_y_offset, clipboard_line>>

\* ----------------------------------------------------------- undo and redo
\* Lines 338-342.
KeyUndo ==
    /\ Getch(IF undo_stack # <<>>
             THEN [cmd |-> "undo", lines |-> lines, row |-> 0]
             ELSE NoPrev)
    /\ IF undo_stack # <<>>
       THEN /\ redo_stack' = Append(redo_stack, lines)
            /\ lines' = undo_stack[Len(undo_stack)]
            /\ undo_stack' = SubSeq(undo_stack, 1, Len(undo_stack) - 1)
            /\ trail' = SubSeq(trail, 1, Len(trail) - 1)
            /\ status_msg' = <<"Undo">>
       ELSE UNCHANGED <<bufv, status_msg>>
    /\ pc' = "draw"
    /\ UNCHANGED <<curv, diskv, screen_y_offset, modified, clipboard_line>>

\* Lines 343-347.
KeyRedo ==
    /\ Getch(NoPrev)
    /\ IF redo_stack # <<>>
       THEN /\ undo_stack' = Append(undo_stack, lines)
            /\ lines' = redo_stack[Len(redo_stack)]
            /\ redo_stack' = SubSeq(redo_stack, 1, Len(redo_stack) - 1)
            /\ trail' = <<>>
            /\ status_msg' = <<"Redo">>
       ELSE UNCHANGED <<bufv, status_msg>>
    /\ pc' = "draw"
    /\ UNCHANGED <<curv, diskv, screen_y_offset, modified, clipboard_line>>

\* ------------------------------------------------------------ the session
Next ==
    \/ Draw
    \/ KeyMouse
    \/ KeyUp
    \/ KeyDown
    \/ KeyLeft
    \/ KeyRight
    \/ KeyBackspace
    \/ KeyEnter
    \/ KeyTab
    \/ KeyPrintable
    \/ KeyExit
    \/ ConfirmExit
    \/ ConfirmOther
    \/ KeySave
    \/ KeyHelp
    \/ KeyOther
    \/ KeyFind
    \/ KeyReplace
    \/ KeyGoto
    \/ KeyCut
    \/ KeyPaste
    \/ KeyUndo
    \/ KeyRedo

Spec == Init /\ [][Next]_vars

\* The sessions on the unnamed new buffer: those that start with it, and
\* those that go on from a full undo_stack.
SpecLong == ((Init /\ InitNoName) \/ InitLongHistory) /\ [][Next]_vars

\* The moves, which leave the buffer as it was loaded.
NextView ==
    \/ Draw
    \/ KeyUp
    \/ KeyDown
    \/ KeyLeft
    \/ KeyRight

\* The sessions that open any file of WrapTexts and look at it.
SpecView == InitView /\ [][NextView]_vars

\* ================================================================ claims
Ended == pc \in {"exited", "crashed"}

\* The handlers that call save_undo().
Mutating ==
    \/ KeyBackspace
    \/ KeyEnter
    \/ KeyTab
    \/ KeyPrintable
    \/ KeyReplace
    \/ KeyCut
    \/ KeyPaste

\* C1: in every reachable state the buffer holds at least one line, and the
\* Cut of the only line leaves one empty line.
C1_BufferNeverEmpty ==
    /\ Len(lines) >= 1
    /\ (prev.cmd = "cut" /\ Len(prev.lines) = 1) => lines = << <<>> >>

\* C2: after every command the cursor is in the buffer:
\* 0 <= cursor_y < len(lines) and 0 <= cursor_x <= len(lines[cursor_y]).
C2_CursorInBuffer ==
    pc \in {"draw", "key"} =>
        /\ 0 <= cursor_y
        /\ cursor_y < Len(lines)
        /\ 0 <= cursor_x
        /\ cursor_x <= Len(lines[cursor_y + 1])

\* C3: N mutating commands (1 <= N <= UndoLimit) followed by N Undos give
\* back the buffer before the first of them, however many history entries
\* there were before.  trail holds, oldest first, the buffers before the last
\* UndoLimit mutating commands not yet undone: every Undo that finds it
\* non-empty must give back its last entry, so the N-th Undo gives back the
\* buffer before the first of the N commands.
C3_UndoRestores ==
    [][(KeyUndo /\ trail # <<>>) =>
          /\ lines' = trail[Len(trail)]
          /\ trail' = SubSeq(trail, 1, Len(trail) - 1)]_vars

\* C3, witness: with undo_stack full, two mutating commands (each dropped the
\* oldest entry) were followed by two Undos, and the buffer they gave back
\* differs from the one the second Undo found.
C3_Witness ==
    /\ nkeys = 4
    /\ prev.cmd = "undo"
    /\ Len(undo_stack) = UndoLimit - 2
    /\ trail = undo_stack
    /\ Len(redo_stack) = 2
    /\ redo_stack[1] # redo_stack[2]
    /\ redo_stack[2] # lines

\* C4: a Redo right after an Undo that took effect gives back the buffer
\* before that Undo; Undo and Redo keep the entries of the redo stack (Undo
\* adds one, Redo takes the top one); a mutating command empties it, and a
\* Redo on the empty stack changes nothing.
C4_RedoAfterUndo ==
    [][/\ (prev.cmd = "undo" /\ KeyRedo) => lines' = prev.lines
       /\ KeyUndo => SubSeq(redo_stack', 1, Len(redo_stack)) = redo_stack
       /\ KeyRedo => redo_stack' = SubSeq(redo_stack, 1, Len(redo_stack) - 1)
       /\ Mutating => redo_stack' = <<>>
       /\ (KeyRedo /\ redo_stack = <<>>) =>
             UNCHANGED <<lines, undo_stack, redo_stack, cursor_y, cursor_x, modified>>]_vars

\* C4, witness: an edit, its Undo and a Redo that brought the edit back.
C4_Witness ==
    /\ nkeys = 3
    /\ status_msg = <<"Redo">>
    /\ redo_stack = <<>>
    /\ Len(undo_stack) = 1
    /\ lines # undo_stack[1]

\* C5: every command that changes the buffer sets the modified flag, and the
\* flag is cleared only by a Save that wrote the file.
C5_ModifiedTracksBuffer ==
    [][/\ lines' # lines => modified'
       /\ (modified /\ ~modified') => (KeySave /\ status_msg' = <<"Wrote">>)]_vars

\* C6: the session ends only through Exit: at once when the buffer is not
\* modified, and otherwise only when the next key is Exit again; any other
\* key resumes the session with buffer, cursor, history and flag unchanged.
C6_ExitProtocol ==
    [][/\ (~Ended /\ Ended') =>
             /\ pc' = "exited"
             /\ (KeyExit /\ ~modified) \/ ConfirmExit
       /\ (KeyExit /\ ~modified) => pc' = "exited"
       /\ (KeyExit /\ modified) => pc' = "confirm"
       /\ (pc = "confirm" /\ pc' # "exited") =>
             /\ pc' = "draw"
             /\ UNCHANGED <<lines, cursor_y, cursor_x, undo_stack, redo_stack, modified>>]_vars

\* C7: no handler fails with an error that leaves the main loop.
C7_NoCrash == pc # "crashed"

\* C8, as claimed: Cut immediately followed by Paste gives back the buffer
\* before the Cut, whatever row was cut.
C8_CutPasteRestores ==
    [][(prev.cmd = "cut" /\ KeyPaste) => lines' = prev.lines]_vars

\* C8, amended: Cut immediately followed by Paste gives back the buffer
\* before the Cut when the row cut is not the last of two or more lines.
C8_CutPasteRestoresNotLast ==
    [][(/\ prev.cmd = "cut"
        /\ KeyPaste
        /\ (prev.row < Len(prev.lines) - 1 \/ Len(prev.lines) = 1)) =>
          lines' = prev.lines]_vars

\* C8, witness: the first line of a buffer of two was cut and pasted back.
C8_Witness ==
    /\ nkeys = 2
    /\ status_msg = <<"Line pasted">>
    /\ Len(undo_stack) = 2
    /\ Len(lines) = 2
    /\ clipboard_line = lines[1]
    /\ clipboard_line # <<>>
    /\ undo_stack[1] = lines
    /\ undo_stack[2] = <<lines[2]>>

\* text.split('\n'): every newline closes a piece, the rest is the last one.
RECURSIVE PiecesFrom(_, _)
PiecesFrom(text, cur) ==
    IF Len(text) = 0 THEN <<cur>>
    ELSE IF text[1] = NL THEN <<cur>> \o PiecesFrom(Tail(text), <<>>)
    ELSE PiecesFrom(Tail(text), Append(cur, text[1]))

\* `text` is the lines of ls, one newline between two of them, none after
\* the last.
HoldsLines(text, ls) ==
    IF ls = <<>> THEN text = <<>> ELSE PiecesFrom(text, <<>>) = ls

\* C9: a Save that goes through, to a path where a file exists, leaves that
\* file's content as the backup, whatever backup there was, and leaves at
\* the path the lines of the buffer, one newline between two of them and
\* none at the end.
C9_SaveKeepsBackup ==
    [][(KeySave /\ status_msg' = <<"Wrote">> /\ disk_file # <<>>) =>
          /\ disk_backup' = disk_file
          /\ Len(disk_file') = 1
          /\ HoldsLines(disk_file'[1], lines)]_vars

\* C9, witness: the loaded file was saved, and saved again after a change:
\* the backup is the first save's text, which took the place of the file as
\* it was loaded.
C9_Witness ==
    /\ status_msg = <<"Wrote">>
    /\ nkeys = 3
    /\ disk_file # disk_backup
    /\ \E text \in InitFiles : disk_backup = <<Join(SplitLines(text))>>

\* C10: a Save that fails or is cancelled ends with a status message and
\* the session goes on: buffer, cursor, history and modified flag are as
\* they were.
C10_FailedSaveChangesNothing ==
    [][(KeySave /\ status_msg' # <<"Wrote">>) =>
          /\ status_msg' \in {<<"Error saving">>, <<"Save cancelled">>}
          /\ pc' = "draw"
          /\ UNCHANGED <<lines, cursor_y, cursor_x, undo_stack, redo_stack, modified>>]_vars

\* C10, witness: the file was renamed to its backup, the open then failed,
\* and the buffer still counts as modified.
C10_Witness ==
    /\ status_msg = <<"Error saving">>
    /\ modified
    /\ disk_file = <<>>
    /\ disk_backup # <<>>
    /\ pc = "draw"

\* C11: undo_stack and redo_stack never hold more than UndoLimit entries,
\* also across Redo, which appends to undo_stack unchecked; a mutating
\* command that finds undo_stack full drops its oldest entry and appends the
\* buffer it found, so the stack then holds exactly the buffers before the
\* last UndoLimit commands, the oldest of them first.
C11_HistoryBounded ==
    [][/\ Len(undo_stack) <= UndoLimit /\ Len(undo_stack') <= UndoLimit
       /\ Len(redo_stack) <= UndoLimit /\ Len(redo_stack') <= UndoLimit
       /\ (Len(undo_stack) = UndoLimit /\ Mutating) =>
             /\ Len(undo_stack') = UndoLimit
             /\ undo_stack'[UndoLimit] = lines
             /\ \A i \in 1..(UndoLimit - 1) : undo_stack'[i] = undo_stack[i + 1]]_vars

\* C11, witness: a mutating command found undo_stack full and dropped the
\* oldest entry, an Undo took the newest, and the Redo filled the stack again.
C11_Witness ==
    /\ status_msg = <<"Redo">>
    /\ nkeys = 3
    /\ Len(undo_stack) = UndoLimit
    /\ undo_stack[1] = << <<"a">> >>
    /\ redo_stack = <<>>

\* C12: after the viewport adjustment of a frame, the display row the cursor
\* maps to among the wrapped segments lies in the window
\* screen_y_offset .. screen_y_offset + text_height - 1.  Stated for the
\* frames drawn with the cursor inside the buffer.
C12_CursorRowVisible ==
    [][(/\ Draw
        /\ HasRow(lines, cursor_y)
        /\ cursor_x <= Len(lines[cursor_y + 1])) =>
          LET displayRow == CursorScan(wrapped_lines(lines, text_width), 0,
                                       cursor_y, cursor_x)[1]
          IN  /\ screen_y_offset' <= displayRow
              /\ displayRow <= screen_y_offset' + text_height - 1]_vars

\* The total length of the segments before index idx (0-based) that belong to
\* the logical row of the segment at idx.
RECURSIVE PriorLen(_, _, _)
PriorLen(wl, idx, k) ==
    IF k >= idx THEN 0
    ELSE (IF wl[k + 1][1] = wl[idx + 1][1] THEN Len(wl[k + 1][2]) ELSE 0)
         + PriorLen(wl, idx, k + 1)

\* C13: a click on display row r and column c of the text area, with a
\* segment drawn on that row, puts the cursor on the logical row of the
\* segment at index screen_y_offset + r and on the column min(c, length of
\* the segment) plus the lengths of the earlier segments of that row, and
\* changes nothing else.
C13_ClickMapsSegment ==
    [][\A my \in 1..text_height, mx \in MouseCols :
          LET r == my - 1
              c == mx - LINE_NUMBER_WIDTH
              wl == wrapped_lines(lines, text_width)
              idx == screen_y_offset + r
          IN  (MouseAt(my, mx) /\ c < text_width /\ idx < Len(wl)) =>
                  /\ cursor_y' = wl[idx + 1][1]
                  /\ cursor_x' = Min(c, Len(wl[idx + 1][2])) + PriorLen(wl, idx, 0)
                  /\ UNCHANGED <<lines, undo_stack, redo_stack, screen_y_offset,
                                 status_msg, modified, clipboard_line, diskv>>]_vars

\* C14, as claimed: after ReplaceAll(find, replace) with find non-empty and
\* not a substring of replace, no line the command changed contains find.
C14_NoFindLeft ==
    [][\A f \in SearchTerms, r \in ReplaceTerms :
          (ReplaceWith(f, r) /\ f # <<>> /\ ~Contains(r, f)) =>
              \A i \in 1..Len(lines) :
                  lines'[i] # lines[i] => ~Contains(lines'[i], f)]_vars

\* The two texts have a character in common.
SharesChar(f, r) == \E i \in 1..Len(f), j \in 1..Len(r) : f[i] = r[j]

\* C14, amended: after ReplaceAll(find, replace) with find non-empty and
\* replace non-empty and without any character of find, no line the command
\* changed contains find.
C14_NoFindLeftDisjoint ==
    [][\A f \in SearchTerms, r \in ReplaceTerms :
          (ReplaceWith(f, r) /\ f # <<>> /\ r # <<>> /\ ~SharesChar(f, r)) =>
              \A i \in 1..Len(lines) :
                  lines'[i] # lines[i] => ~Contains(lines'[i], f)]_vars

\* C14, witness: a ReplaceAll put "b" for every "a" of a line that held two
\* of them.
C14_Witness ==
    /\ status_msg = <<"Replaced", 2>>
    /\ undo_stack # <<>>
    /\ \E i \in 1..Len(lines) :
          /\ lines[i] = <<"b", "b", "b">>
          /\ undo_stack[Len(undo_stack)][i] = <<"a", "a", "b">>

\* term starts at offset c (0-based) of line.
OccursAt(line, term, c) == SubSeq(line, c + 1, c + Len(term)) = term

\* C15: Find(term) with the cursor on row r0 moves the cursor to (r, c), r
\* the first row from r0 on whose line contains term and c the first offset
\* of term in it; without such a row the cursor stays; buffer, history,
\* clipboard and modified flag stay in both cases.
C15_FindFirstFromCursor ==
    [][\A term \in SearchTerms :
          FindWith(term) =>
              LET Hit(r) == Contains(lines[r + 1], term)
                  rows == cursor_y..(Len(lines) - 1)
              IN  /\ IF \E r \in rows : Hit(r)
                     THEN /\ cursor_y' \in rows
                          /\ Hit(cursor_y')
                          /\ \A q \in rows : q < cursor_y' => ~Hit(q)
                          /\ OccursAt(lines[cursor_y' + 1], term, cursor_x')
                          /\ \A j \in 0..(cursor_x' - 1) :
                                ~OccursAt(lines[cursor_y' + 1], term, j)
                     ELSE UNCHANGED <<cursor_y, cursor_x>>
                  /\ UNCHANGED <<lines, undo_stack, redo_stack, clipboard_line,
                                 modified>>]_vars

\* C15, witness: a Find started on row 0 skipped it and stopped on row 1, at
\* the offset of the term behind the four spaces of a Tab.
C15_Witness ==
    /\ status_msg = <<"Found">>
    /\ pc = "draw"
    /\ nkeys = 4
    /\ cursor_y = 1
    /\ cursor_x = 4
    /\ lines = << <<>>, <<" ", " ", " ", " ", "a", "b">>, <<"a">> >>

\* The texts of the segments, concatenated.
RECURSIVE SegText(_)
SegText(segs) ==
    IF Len(segs) = 0 THEN <<>> ELSE segs[1][2] \o SegText(Tail(segs))

\* C16: for every width 1..TermWidth, the segments wrapped_lines gives for a
\* row come in row order, concatenate to the row's text, are at most width
\* characters long, and number ceil(L / width) for a row of length L, one
\* empty segment when L = 0.
C16_WrapPartitions ==
    \A width \in 1..TermWidth :
        LET wl == wrapped_lines(lines, width)
        IN  /\ \A k \in 1..(Len(wl) - 1) : wl[k][1] <= wl[k + 1][1]
            /\ \A k \in 1..Len(wl) : wl[k][1] \in 0..(Len(lines) - 1)
            /\ \A row \in 0..(Len(lines) - 1) :
                  LET segs == SelectSeq(wl, LAMBDA e : e[1] = row)
                      L == Len(lines[row + 1])
                  IN  /\ SegText(segs) = lines[row + 1]
                      /\ \A k \in 1..Len(segs) : Len(segs[k][2]) <= width
                      /\ Len(segs) = (IF L = 0 THEN 1 ELSE (L + width - 1) \div width)
                      /\ L = 0 => segs = << <<row, <<>> >> >>

\* C16, witness: a frame was drawn of a buffer with an empty row and a row
\* that the text width cuts into a full segment and a shorter last one.
C16_Witness ==
    /\ pc = "key"
    /\ \E i, j \in 1..Len(lines) :
          /\ lines[i] = <<>>
          /\ Len(lines[j]) > text_width
          /\ Len(lines[j]) % text_width # 0
          /\ Len(word_wrap(lines[j], text_width)) = 2

\* C17: clipboard_line changes only in a Cut, which puts the removed line
\* there; a Paste inserts one line equal to clipboard_line and keeps
\* clipboard_line, so consecutive Pastes insert the same line again, and,
\* clipboard_line being empty when the session starts, a Paste before any
\* Cut inserts an empty line.
C17_ClipboardOnlyCut ==
    [][/\ clipboard_line' # clipboard_line =>
              /\ KeyCut
              /\ HasRow(lines, cursor_y)
              /\ clipboard_line' = lines[cursor_y + 1]
       /\ (KeyCut /\ pc' = "draw") =>
              /\ clipboard_line' = lines[cursor_y + 1]
              /\ lines' = ListPop(lines, cursor_y)
       /\ KeyPaste =>
              /\ clipboard_line' = clipboard_line
              /\ Len(lines') = Len(lines) + 1
              /\ \E i \in 1..Len(lines') :
                    /\ lines'[i] = clipboard_line
                    /\ SubSeq(lines', 1, i - 1) \o SubSeq(lines', i + 1, Len(lines')) = lines]_vars

\* C17, witness: a Cut took the line "ab" and two Pastes in a row each put
\* it back in.
C17_Witness ==
    /\ status_msg = <<"Line pasted">>
    /\ nkeys = 3
    /\ clipboard_line = <<"a", "b">>
    /\ lines = << <<"a", "b">>, <<"a", "b">>, <<"a">> >>

\* C18: GotoLine answered with a text that is no number, or with a number
\* outside 1..len(lines), changes status_msg only; answered with n in
\* 1..len(lines) it puts the cursor on row n - 1, the column cut down to that
\* line's length, and changes nothing else.
C18_GotoLine ==
    [][\A answer \in GotoAnswers :
          GotoWith(answer) =>
              /\ UNCHANGED <<lines, undo_stack, redo_stack, clipboard_line,
                             modified, screen_y_offset, diskv>>
              /\ IF answer[1] /\ answer[2] \in 1..Len(lines)
                 THEN /\ cursor_y' = answer[2] - 1
                      /\ cursor_x' = Min(cursor_x, Len(lines[answer[2]]))
                 ELSE UNCHANGED <<cursor_y, cursor_x>>]_vars

\* C18, witness: GotoLine 2 from column 2 of "ab" put the cursor on row 1,
\* at the end of "a".
C18_Witness ==
    /\ status_msg = <<"Jumped">>
    /\ pc = "draw"
    /\ nkeys = 3
    /\ cursor_y = 1
    /\ cursor_x = 1
    /\ lines = << <<"a", "b">>, <<"a">> >>
    /\ undo_stack = <<>>
    /\ ~modified

\* C19: drawing a frame leaves the cursor's row and column as they were, so
\* that the character typed next goes in at the column the cursor had before
\* the frame.
C19_DrawKeepsCursor ==
    [][Draw => (cursor_y' = cursor_y /\ cursor_x' = cursor_x)]_vars

\* C20: a Backspace with the cursor at row 0, column 0, and a ReplaceAll whose
\* term no line contains, leave the buffer as it is and with it undo_stack,
\* redo_stack and the modified flag.
C20_NoOpKeepsHistory ==
    [][/\ (KeyBackspace /\ cursor_y = 0 /\ cursor_x = 0) =>
              UNCHANGED <<lines, undo_stack, redo_stack, modified>>
       /\ \A f \in SearchTerms, r \in ReplaceTerms :
              (ReplaceWith(f, r) /\ \A i \in 1..Len(lines) : ~Contains(lines[i], f)) =>
                  UNCHANGED <<lines, undo_stack, redo_stack, modified>>]_vars
====
